---------------------------- MODULE Spec2Model ----------------------------
(***************************************************************************)
(* Discriminator pre-training script (pretrain_discriminator.py): the      *)
(* checkpoint lifecycle, the epoch/batch loop, the metric meters, the      *)
(* metrics file and the real/fake batch mixing.                            *)
(*                                                                         *)
(* Three specifications share the variables:                               *)
(*   Spec     one process run, train() followed statement by statement;    *)
(*   SpecRuns several process runs over one storage root, train() taken as *)
(*            one call (its metrics are not needed for checkpoints);       *)
(*   SpecMix  one batch through sample_from_start and the label mixing.    *)
(*                                                                         *)
(* Environment assumptions: the vocabulary file and the ckpts/ and stats/  *)
(* directories exist, the tensors agree in shape with the architecture,    *)
(* and the training set is not empty.  Floats are modelled by integers     *)
(* (losses) and exact fractions <<sum, count>> (averages).                 *)
(***************************************************************************)
EXTENDS Integers, Sequences, FiniteSets, TLC

\* ------------------------------------------------------------------ bounds
MaxEpochs == 2        \* --epochs is drawn from 0..MaxEpochs
MaxBatches == 2       \* len(train_loader) is drawn from 1..MaxBatches
MaxRuns == 2          \* process runs over the same storage root (SpecRuns)
MaxBatchSize == 2     \* caps.shape[0] is drawn from 1..MaxBatchSize (SpecMix)
ColShape == 4         \* caps.shape[1], the padded width of the real captions (SpecMix)

\* ------------------------------------------------------------- input sets
Absent == "<absent>"                    \* the option is not on the command line
SaveModelArgv == {Absent, "", "False"}  \* --save-model, type=bool
SaveStatsArgv == {Absent, "True"}       \* --save-stats, type=bool
PrintFreqs == {0, 1, 2}                 \* --print-freq
SamplingMethods == {"multinomial", "greedy"}
ExtDisFile == "gan_dis.pth"             \* a discriminator checkpoint of another script
DisFilenames == {"", ExtDisFile, "pretrain_dis_0_multinomial_resnet152.pth"}
MetricVals == {<<1, 1>>, <<3, 0>>}      \* (loss.item(), binary_accuracy.item()) of a batch

RealLens == {2, 3}                      \* true lengths of the real captions
MaxLenArgv == {2, 3}                    \* --max-len
StartTok == "<start>"
EndTok == "<end>"
PadTok == "<pad>"
WordTok == "w"
EmitToks == {WordTok, EndTok}           \* what the generator emits at a step

Storage == "."
Dataset == "flickr8k"
GenFilename == "mle_gen_resnet152_5.pth"
CnnArchitecture == "resnet152"

VARIABLES
    pc,         \* position of the process in the script
    run,        \* index of the process run, from 1
    args,       \* argparse namespace
    nbatches,   \* len(train_loader)
    gen,        \* generator parameters
    dis,        \* discriminator parameters
    opt,        \* dis_optimizer state
    e,          \* loop variable of main
    batch_id,   \* loop variable of train
    losses,     \* AverageMeter of train
    acc,        \* AverageMeter of train
    ckpts,      \* checkpoint files: path -> saved dict
    stats,      \* metrics files: path -> rows
    fed,        \* history: every metric update of this run, [epoch, loss, acc]
    events,     \* history: operations of this run, in order
    writes,     \* history: checkpoint saves of all runs, [run, path]
    stats0,     \* history: the metrics files as the run found them
    ckpts0,     \* history: the checkpoint files as the run found them
    mpc,        \* SpecMix: position in the batch
    caps,       \* real captions of the batch, one row of tokens per example
    cap_lens,   \* their true lengths, after squeeze(-1)
    imgs,       \* image features of the batch
    max_len,    \* args.max_len
    gen_len,    \* the cap_len handed to generator.sample
    fake_caps,  \* padded fake captions
    fake_cap_lens,
    indices,    \* torch.randperm(2N); positions count from 1 here
    d_imgs,     \* imgs[indices], as handed to the discriminator
    d_inputs,   \* inputs[indices]
    d_lens,     \* input_lens[indices]
    d_targets   \* targets[indices], as handed to the loss

procVars == <<pc, run, args, nbatches, gen, dis, opt, e, batch_id, losses, acc,
              ckpts, stats, fed, events, writes, stats0, ckpts0>>

mixVars == <<mpc, caps, cap_lens, imgs, max_len, gen_len, fake_caps, fake_cap_lens,
             indices, d_imgs, d_inputs, d_lens, d_targets>>

\* ---------------------------------------------------------------- helpers
RECURSIVE SumLoss(_)
SumLoss(s) == IF s = <<>> THEN 0 ELSE Head(s).loss + SumLoss(Tail(s))

RECURSIVE SumAcc(_)
SumAcc(s) == IF s = <<>> THEN 0 ELSE Head(s).acc + SumAcc(Tail(s))

Count(s, x) == Cardinality({i \in DOMAIN s : s[i] = x})

\* AverageMeter of utils.py
MeterNew == [val |-> 0, sum |-> 0, count |-> 0]
MeterUpdate(m, v) == [val |-> v, sum |-> m.sum + v, count |-> m.count + 1]
MeterAvg(m) == <<m.sum, m.count>>       \* the fraction sum / count

\* argparse type=bool: bool(s) of the given string, the default when absent
ParseBool(s, default) == IF s = Absent THEN default ELSE s /= ""

GenCheckpointPath(a) ==
    a.storage \o "/ckpts/" \o a.dataset \o "/gen/" \o a.gen_checkpoint_filename
DisCheckpointPath(a) ==
    a.storage \o "/ckpts/" \o a.dataset \o "/dis/" \o a.dis_checkpoint_filename
\* a slip: the epoch left out of the file name
SavePathNoEpoch(a, ep) ==
    a.storage \o "/ckpts/" \o a.dataset \o "/dis/" \o "pretrain_dis" \o "_"
      \o a.sampling_method \o "_" \o a.cnn_architecture \o ".pth"
SavePath(a, ep) ==
    a.storage \o "/ckpts/" \o a.dataset \o "/dis/" \o "pretrain_dis" \o "_"
      \o ToString(ep) \o "_" \o a.sampling_method \o "_" \o a.cnn_architecture \o ".pth"
StatsPath(a) ==
    a.storage \o "/stats/" \o a.dataset \o "/dis/" \o "pretrain_dis" \o "_"
      \o a.sampling_method \o "_" \o a.cnn_architecture \o ".csv"

\* path.isfile: a path ending in "/" names a directory
IsFile(p) == p \in DOMAIN ckpts

\* torch.save of the per-epoch checkpoint
SavedDict == [dis_state_dict |-> dis, optimizer_state_dict |-> opt]
WriteFile(fs, p, c) == [q \in DOMAIN fs \cup {p} |-> IF q = p THEN c ELSE fs[q]]

\* a slip: the file opened with 'w'
AppendRowTruncating(fs, p, row) == WriteFile(fs, p, <<row>>)

\* open(..., 'a+') and writer.writerow
AppendRow(fs, p, row) ==
    WriteFile(fs, p, IF p \in DOMAIN fs THEN Append(fs[p], row) ELSE <<row>>)

StatsRow == <<e, batch_id, MeterAvg(losses), losses.val, acc.val, MeterAvg(acc)>>

Fresh(r) == [init |-> r, steps |-> 0]   \* newly constructed module / optimizer of run r
ExtDict == [dis_state_dict |-> [init |-> 0, steps |-> 1],
            dis_optimizer_state_dict |-> [init |-> 0, steps |-> 1]]
GenDict == [gen_state_dict |-> "mle"]

DefaultArgs ==
    [epochs |-> 0, print_freq |-> 1, sampling_method |-> "multinomial",
     cnn_architecture |-> CnnArchitecture, storage |-> Storage, dataset |-> Dataset,
     gen_checkpoint_filename |-> GenFilename, dis_checkpoint_filename |-> "",
     save_model |-> TRUE, save_stats |-> FALSE]

\* ------------------------------------------------------------------- Init
\* the storage root holds a discriminator checkpoint with the keys main reads,
\* and may hold the generator checkpoint and a metrics file of an earlier run
ExtDisPath == DisCheckpointPath([DefaultArgs EXCEPT !.dis_checkpoint_filename = ExtDisFile])

\* the row an earlier run of one epoch and one batch left in the metrics file
PriorRow == <<0, 0, <<1, 1>>, 1, 1, <<1, 1>>>>

InitProc ==
    /\ pc = "args"
    /\ run = 1
    /\ args = DefaultArgs
    /\ nbatches \in 1..MaxBatches
    /\ gen = "random"
    /\ dis = Fresh(1)
    /\ opt = Fresh(1)
    /\ e = 0
    /\ batch_id = 0
    /\ losses = MeterNew
    /\ acc = MeterNew
    /\ \E genThere \in BOOLEAN :
         ckpts = IF genThere
                 THEN WriteFile(WriteFile(<<>>, ExtDisPath, ExtDict),
                                GenCheckpointPath(DefaultArgs), GenDict)
                 ELSE WriteFile(<<>>, ExtDisPath, ExtDict)
    /\ \E prior \in BOOLEAN :
         stats = IF prior THEN AppendRow(<<>>, StatsPath(DefaultArgs), PriorRow) ELSE <<>>
    /\ stats0 = stats
    /\ ckpts0 = ckpts
    /\ fed = <<>>
    /\ events = <<>>
    /\ writes = <<>>

ProcIdle ==
    /\ pc = "idle"
    /\ run = 1
    /\ args = DefaultArgs
    /\ nbatches = 1
    /\ gen = "random"
    /\ dis = Fresh(1)
    /\ opt = Fresh(1)
    /\ e = 0
    /\ batch_id = 0
    /\ losses = MeterNew
    /\ acc = MeterNew
    /\ ckpts = <<>>
    /\ stats = <<>>
    /\ stats0 = <<>>
    /\ ckpts0 = <<>>
    /\ fed = <<>>
    /\ events = <<>>
    /\ writes = <<>>

MixIdle ==
    /\ mpc = "idle"
    /\ caps = <<>>
    /\ cap_lens = <<>>
    /\ imgs = <<>>
    /\ max_len = 0
    /\ gen_len = 0
    /\ fake_caps = <<>>
    /\ fake_cap_lens = <<>>
    /\ indices = <<>>
    /\ d_imgs = <<>>
    /\ d_inputs = <<>>
    /\ d_lens = <<>>
    /\ d_targets = <<>>

\* a batch of the loader: N examples, each caption <start> w.. <end> <pad>..
RealCaption(len) ==
    [c \in 1..ColShape |-> IF c = 1 THEN StartTok
                           ELSE IF c < len THEN WordTok
                           ELSE IF c = len THEN EndTok ELSE PadTok]

InitMix ==
    /\ mpc = "batch"
    /\ \E n \in 1..MaxBatchSize :
         /\ cap_lens \in [1..n -> RealLens]
         /\ caps = [i \in 1..n |-> RealCaption(cap_lens[i])]
         /\ imgs = [i \in 1..n |-> <<"img", i>>]
    /\ max_len \in MaxLenArgv
    /\ gen_len = 0
    /\ fake_caps = <<>>
    /\ fake_cap_lens = <<>>
    /\ indices = <<>>
    /\ d_imgs = <<>>
    /\ d_inputs = <<>>
    /\ d_lens = <<>>
    /\ d_targets = <<>>

\* ------------------------------------------------------- batch operators
MaxOf(s) == CHOOSE m \in {s[i] : i \in DOMAIN s} : \A i \in DOMAIN s : s[i] <= m

\* a slip: the "- 1" of the target length forgotten
TargetLenNoMinus(lens, maxlen) == IF MaxOf(lens) > maxlen THEN MaxOf(lens) ELSE maxlen

\* sample_from_start: cap_len = max(torch.max(cap_lens).item(), args.max_len) - 1
TargetLen(lens, maxlen) == (IF MaxOf(lens) > maxlen THEN MaxOf(lens) ELSE maxlen) - 1

\* generator.sample: row i is input_word[i] followed by the cap_len tokens emitted
\* for it, in a tensor of col_shape columns
GeneratorSample(cap_len, col_shape, input_word, emitted) ==
    [i \in DOMAIN input_word |->
       [c \in 1..col_shape |-> IF c = 1 THEN input_word[i]
                               ELSE IF c <= cap_len + 1 THEN emitted[i][c - 1]
                               ELSE PadTok]]

\* pad_generated_captions: cut each row at its first <end> (or at the generation
\* limit), record the length, pad again to the common width
FirstEnd(row) ==
    IF \E c \in DOMAIN row : row[c] \in {EndTok, PadTok}
    THEN CHOOSE c \in DOMAIN row :
           /\ row[c] \in {EndTok, PadTok}
           /\ \A b \in 1..(c - 1) : row[b] \notin {EndTok, PadTok}
    ELSE Len(row) + 1
CutLen(row) ==
    IF FirstEnd(row) > Len(row) THEN Len(row)
    ELSE IF row[FirstEnd(row)] = EndTok THEN FirstEnd(row) ELSE FirstEnd(row) - 1
PadGeneratedCaptions(rows) ==
    [caps |-> [i \in DOMAIN rows |->
                 [c \in DOMAIN rows[i] |-> IF c <= CutLen(rows[i]) THEN rows[i][c] ELSE PadTok]],
     lens |-> [i \in DOMAIN rows |-> CutLen(rows[i])]]

Cat(a, b) == a \o b                                   \* torch.cat(..., dim=0)
Gather(t, idx) == [p \in DOMAIN idx |-> t[idx[p]]]    \* t[indices]
Ones(n) == [i \in 1..n |-> 1]
Zeros(n) == [i \in 1..n |-> 0]
RandPerm(n) == Permutations(1..n)                     \* the outcomes of torch.randperm(n)

Inputs == Cat(caps, fake_caps)
InputLens == Cat(cap_lens, fake_cap_lens)
ImgsTwice == Cat(imgs, imgs)
\* a slip: the fake half labelled like the real half
TargetsAllOnes == Cat(Ones(Len(caps)), Ones(Len(caps)))
Targets == Cat(Ones(Len(caps)), Zeros(Len(caps)))

\* train: fake_caps, fake_cap_lens, _ = sample_from_start(...)
SampleFromStart ==
    /\ mpc = "batch"
    /\ LET cap_len == TargetLen(cap_lens, max_len)
           input_word == [i \in DOMAIN caps |-> caps[i][1]]
       IN \E emitted \in [DOMAIN caps -> [1..cap_len -> EmitToks]] :
            LET padded == PadGeneratedCaptions(
                              GeneratorSample(cap_len, ColShape, input_word, emitted))
            IN /\ gen_len' = cap_len
               /\ fake_caps' = padded.caps
               /\ fake_cap_lens' = padded.lens
    /\ mpc' = "sampled"
    /\ UNCHANGED <<caps, cap_lens, imgs, max_len, indices, d_imgs, d_inputs, d_lens,
                   d_targets>>
    /\ UNCHANGED procVars

\* a slip: the loss taken against targets instead of targets[indices]
MixBatchPlainTargets ==
    /\ mpc = "sampled"
    /\ \E perm \in RandPerm(Len(caps) * 2) :
         /\ indices' = perm
         /\ d_imgs' = Gather(ImgsTwice, perm)
         /\ d_inputs' = Gather(Inputs, perm)
         /\ d_lens' = Gather(InputLens, perm)
         /\ d_targets' = Targets
    /\ mpc' = "mixed"
    /\ UNCHANGED <<caps, cap_lens, imgs, max_len, gen_len, fake_caps, fake_cap_lens>>
    /\ UNCHANGED procVars

\* train: permute the concatenated batch, discriminator forward and loss
MixBatch ==
    /\ mpc = "sampled"
    /\ \E perm \in RandPerm(Len(caps) * 2) :
         /\ indices' = perm
         /\ d_imgs' = Gather(ImgsTwice, perm)
         /\ d_inputs' = Gather(Inputs, perm)
         /\ d_lens' = Gather(InputLens, perm)
         /\ d_targets' = Gather(Targets, perm)
    /\ mpc' = "mixed"
    /\ UNCHANGED <<caps, cap_lens, imgs, max_len, gen_len, fake_caps, fake_cap_lens>>
    /\ UNCHANGED procVars

NextMix == SampleFromStart \/ MixBatch

\* ---------------------------------------------------------------- actions
\* __main__: parse the command line
ParseArgs ==
    /\ UNCHANGED mixVars
    /\ pc = "args"
    /\ \E ep \in 0..MaxEpochs, k \in PrintFreqs, sm \in SamplingMethods,
          fn \in DisFilenames, svm \in SaveModelArgv, svs \in SaveStatsArgv :
         args' = [DefaultArgs EXCEPT !.epochs = ep, !.print_freq = k,
                     !.sampling_method = sm, !.dis_checkpoint_filename = fn,
                     !.save_model = ParseBool(svm, TRUE),
                     !.save_stats = ParseBool(svs, FALSE)]
    /\ pc' = "loadgen"
    /\ UNCHANGED <<run, nbatches, gen, dis, opt, e, batch_id, losses, acc,
                   ckpts, stats, fed, events, writes, stats0, ckpts0>>

\* main: restore the generator
LoadGen ==
    /\ UNCHANGED mixVars
    /\ pc = "loadgen"
    /\ IF IsFile(GenCheckpointPath(args))
       THEN /\ gen' = ckpts[GenCheckpointPath(args)].gen_state_dict
            /\ events' = Append(events, "load_gen")
       ELSE UNCHANGED <<gen, events>>
    /\ pc' = "loaddis"
    /\ UNCHANGED <<run, args, nbatches, dis, opt, e, batch_id, losses, acc,
                   ckpts, stats, fed, writes, stats0, ckpts0>>

\* main: restore the discriminator and its optimizer
LoadDis ==
    /\ UNCHANGED mixVars
    /\ pc = "loaddis"
    /\ IF ~IsFile(DisCheckpointPath(args))
       THEN /\ pc' = "loop"
            /\ UNCHANGED <<dis, opt, events>>
       ELSE LET checkpoint == ckpts[DisCheckpointPath(args)] IN
            /\ events' = Append(events, "load_dis")
            /\ IF "dis_state_dict" \notin DOMAIN checkpoint
               THEN pc' = "KeyError" /\ UNCHANGED <<dis, opt>>
               ELSE /\ dis' = checkpoint.dis_state_dict
                    /\ IF "dis_optimizer_state_dict" \notin DOMAIN checkpoint
                       THEN pc' = "KeyError" /\ UNCHANGED opt
                       ELSE /\ opt' = checkpoint.dis_optimizer_state_dict
                            /\ pc' = "loop"
    /\ UNCHANGED <<run, args, nbatches, gen, e, batch_id, losses, acc,
                   ckpts, stats, fed, writes, stats0, ckpts0>>

\* main: for e in range(args.epochs)
ForEpoch ==
    /\ UNCHANGED mixVars
    /\ pc = "loop"
    /\ pc' = IF e < args.epochs THEN "train" ELSE "done"
    /\ UNCHANGED <<run, args, nbatches, gen, dis, opt, e, batch_id, losses, acc,
                   ckpts, stats, fed, events, writes, stats0, ckpts0>>

\* a slip: the meters made once for the process and carried into every epoch
TrainBeginKeepMeters ==
    /\ UNCHANGED mixVars
    /\ pc = "train"
    /\ batch_id' = 0
    /\ pc' = "sample"
    /\ UNCHANGED <<run, args, nbatches, gen, dis, opt, e, losses, acc, ckpts, stats, fed,
                   events, writes, stats0, ckpts0>>

\* train: the meters and the first batch of the loader
TrainBegin ==
    /\ UNCHANGED mixVars
    /\ pc = "train"
    /\ losses' = MeterNew
    /\ acc' = MeterNew
    /\ batch_id' = 0
    /\ pc' = "sample"
    /\ UNCHANGED <<run, args, nbatches, gen, dis, opt, e, ckpts, stats, fed,
                   events, writes, stats0, ckpts0>>

Step(at, next, ev) ==
    /\ UNCHANGED mixVars
    /\ pc = at
    /\ pc' = next
    /\ events' = Append(events, ev)
    /\ UNCHANGED <<run, args, nbatches, gen, e, batch_id, losses, acc,
                   ckpts, stats, fed, writes, stats0, ckpts0>>

\* train: fake captions from the generator, under no_grad
Sample == Step("sample", "zero_grad", "sample") /\ UNCHANGED <<dis, opt>>

ZeroGrad == Step("zero_grad", "forward", "zero_grad") /\ UNCHANGED <<dis, opt>>

\* train: mix the batch, discriminator forward pass and loss
Forward == Step("forward", "backward", "forward") /\ UNCHANGED <<dis, opt>>

Backward == Step("backward", "step", "backward") /\ UNCHANGED <<dis, opt>>

\* a slip: the optimizer built over the generator's parameters as well
OptStepAlsoGenerator ==
    /\ UNCHANGED mixVars
    /\ pc = "step"
    /\ pc' = "update"
    /\ events' = Append(events, "step")
    /\ dis' = [dis EXCEPT !.steps = @ + 1]
    /\ opt' = [opt EXCEPT !.steps = @ + 1]
    /\ gen' = "updated"
    /\ UNCHANGED <<run, args, nbatches, e, batch_id, losses, acc,
                   ckpts, stats, fed, writes, stats0, ckpts0>>

\* train: dis_optimizer.step()
OptStep ==
    /\ Step("step", "update", "step")
    /\ dis' = [dis EXCEPT !.steps = @ + 1]
    /\ opt' = [opt EXCEPT !.steps = @ + 1]

\* train: losses.update and acc.update
UpdateMetrics ==
    /\ UNCHANGED mixVars
    /\ pc = "update"
    /\ \E m \in MetricVals :
         /\ losses' = MeterUpdate(losses, m[1])
         /\ acc' = MeterUpdate(acc, m[2])
         /\ fed' = Append(fed, [epoch |-> e, loss |-> m[1], acc |-> m[2]])
    /\ events' = Append(events, "update")
    /\ pc' = "print"
    /\ UNCHANGED <<run, args, nbatches, gen, dis, opt, e, batch_id,
                   ckpts, stats, writes, stats0, ckpts0>>

\* train: the print interval, the metrics row, and the next batch of the loader
PrintStats ==
    /\ UNCHANGED mixVars
    /\ pc = "print"
    /\ IF args.print_freq = 0
       THEN \* ZeroDivisionError
            /\ pc' = "ZeroDivisionError"
            /\ UNCHANGED <<batch_id, stats, events>>
       ELSE /\ IF batch_id % args.print_freq = 0 /\ args.save_stats
               THEN /\ stats' = AppendRow(stats, StatsPath(args), StatsRow)
                    /\ events' = Append(events, "row")
               ELSE UNCHANGED <<stats, events>>
            /\ IF batch_id + 1 < nbatches
               THEN batch_id' = batch_id + 1 /\ pc' = "sample"
               ELSE UNCHANGED batch_id /\ pc' = "save"
    /\ UNCHANGED <<run, args, nbatches, gen, dis, opt, e, losses, acc,
                   ckpts, fed, writes, stats0, ckpts0>>

\* a slip: the save_model flag not consulted
SaveEpochAlways ==
    /\ UNCHANGED mixVars
    /\ pc = "save"
    /\ ckpts' = WriteFile(ckpts, SavePath(args, e), SavedDict)
    /\ writes' = Append(writes, [run |-> run, path |-> SavePath(args, e)])
    /\ events' = Append(events, "save")
    /\ e' = e + 1
    /\ pc' = "loop"
    /\ UNCHANGED <<run, args, nbatches, gen, dis, opt, batch_id, losses, acc,
                   stats, fed, stats0, ckpts0>>

\* a slip: the checkpoint written after the last epoch only
SaveEpochLastOnly ==
    /\ UNCHANGED mixVars
    /\ pc = "save"
    /\ IF args.save_model /\ e = args.epochs - 1
       THEN /\ ckpts' = WriteFile(ckpts, SavePath(args, e), SavedDict)
            /\ writes' = Append(writes, [run |-> run, path |-> SavePath(args, e)])
            /\ events' = Append(events, "save")
       ELSE UNCHANGED <<ckpts, writes, events>>
    /\ e' = e + 1
    /\ pc' = "loop"
    /\ UNCHANGED <<run, args, nbatches, gen, dis, opt, batch_id, losses, acc,
                   stats, fed, stats0, ckpts0>>

\* main: the per-epoch checkpoint
SaveEpoch ==
    /\ UNCHANGED mixVars
    /\ pc = "save"
    /\ IF args.save_model
       THEN /\ ckpts' = WriteFile(ckpts, SavePath(args, e), SavedDict)
            /\ writes' = Append(writes, [run |-> run, path |-> SavePath(args, e)])
            /\ events' = Append(events, "save")
       ELSE UNCHANGED <<ckpts, writes, events>>
    /\ e' = e + 1
    /\ pc' = "loop"
    /\ UNCHANGED <<run, args, nbatches, gen, dis, opt, batch_id, losses, acc,
                   stats, fed, stats0, ckpts0>>

\* main: the call of train as main sees it: the optimizer steps of one epoch, or
\* the exception of its first batch (SpecRuns does not follow the metrics rows)
TrainCall ==
    /\ UNCHANGED mixVars
    /\ pc = "train"
    /\ IF args.print_freq = 0
       THEN /\ dis' = [dis EXCEPT !.steps = @ + 1]
            /\ opt' = [opt EXCEPT !.steps = @ + 1]
            /\ pc' = "ZeroDivisionError"
       ELSE /\ dis' = [dis EXCEPT !.steps = @ + nbatches]
            /\ opt' = [opt EXCEPT !.steps = @ + nbatches]
            /\ pc' = "save"
    /\ UNCHANGED <<run, args, nbatches, gen, e, batch_id, losses, acc,
                   ckpts, stats, fed, events, writes, stats0, ckpts0>>

\* the operator starts the script again on the same storage root
Restart ==
    /\ UNCHANGED mixVars
    /\ pc \in {"done", "KeyError", "ZeroDivisionError"}
    /\ run < MaxRuns
    /\ run' = run + 1
    /\ pc' = "args"
    /\ args' = DefaultArgs
    /\ gen' = "random"
    /\ dis' = Fresh(run + 1)
    /\ opt' = Fresh(run + 1)
    /\ e' = 0
    /\ batch_id' = 0
    /\ losses' = MeterNew
    /\ acc' = MeterNew
    /\ fed' = <<>>
    /\ events' = <<>>
    /\ stats0' = stats
    /\ ckpts0' = ckpts
    /\ UNCHANGED <<nbatches, ckpts, stats, writes>>

Next ==
    \/ ParseArgs \/ LoadGen \/ LoadDis \/ ForEpoch \/ TrainBegin
    \/ Sample \/ ZeroGrad \/ Forward \/ Backward \/ OptStep
    \/ UpdateMetrics \/ PrintStats \/ SaveEpoch

Init == InitProc /\ MixIdle

vars == <<procVars, mixVars>>

Spec == Init /\ [][Next]_vars

NextRuns ==
    \/ ParseArgs \/ LoadGen \/ LoadDis \/ ForEpoch \/ TrainCall \/ SaveEpoch
    \/ Restart

SpecRuns == Init /\ [][NextRuns]_vars

InitBatch == ProcIdle /\ InitMix

SpecMix == InitBatch /\ [][NextMix]_vars


\* ------------------------------------------------------------------ claims
BatchN == Len(caps)

\* C4: for a batch of N real captions the label vector handed to the loss has
\* exactly 2N entries, N of them 1 and N of them 0, whatever permutation was drawn.
C4_LabelCounts ==
    mpc = "mixed" =>
        /\ Len(d_targets) = 2 * BatchN
        /\ Count(d_targets, 1) = BatchN
        /\ Count(d_targets, 0) = BatchN

C4_Witness ==
    /\ mpc = "mixed"
    /\ BatchN = 2
    /\ d_targets[1] = 0
    /\ d_targets[4] = 1

\* C5: one permutation is applied to captions, lengths, images and labels: at every
\* output position all four come from the same index of the concatenated batch, so
\* a real caption carries label 1 with its own length and image and a fake caption
\* label 0 with its own length and the image it was generated from.
C5_SharedPermutation ==
    mpc = "mixed" =>
        /\ {indices[p] : p \in DOMAIN indices} = 1..(2 * BatchN)
        /\ Len(indices) = 2 * BatchN
        /\ \A p \in 1..(2 * BatchN) :
             LET j == indices[p] IN
             IF j <= BatchN
             THEN /\ d_inputs[p] = caps[j]
                  /\ d_lens[p] = cap_lens[j]
                  /\ d_imgs[p] = imgs[j]
                  /\ d_targets[p] = 1
             ELSE /\ d_inputs[p] = fake_caps[j - BatchN]
                  /\ d_lens[p] = fake_cap_lens[j - BatchN]
                  /\ d_imgs[p] = imgs[j - BatchN]
                  /\ d_targets[p] = 0

C5_Witness ==
    /\ mpc = "mixed"
    /\ BatchN = 2
    /\ indices[1] = 4
    /\ indices[2] = 1
    /\ fake_cap_lens[2] /= cap_lens[1]

\* C8: the fake batch of sample_from_start has as many rows as the real batch, no
\* recorded length exceeds the width of the padded fake tensor, and the generator
\* ran for max(largest real length, max_len) - 1 steps.
C8_FakeBatchShape ==
    mpc \in {"sampled", "mixed"} =>
        /\ Len(fake_caps) = BatchN
        /\ Len(fake_cap_lens) = BatchN
        /\ \A i \in 1..BatchN : fake_cap_lens[i] <= Len(fake_caps[i])
        /\ \A i \in 1..BatchN : cap_lens[i] <= gen_len + 1
        /\ max_len <= gen_len + 1
        /\ gen_len + 1 \in {cap_lens[i] : i \in 1..BatchN} \cup {max_len}

C8_Witness ==
    /\ mpc = "sampled"
    /\ BatchN = 2
    /\ max_len > cap_lens[1]
    /\ max_len > cap_lens[2]
    /\ fake_cap_lens[1] < fake_cap_lens[2]

WrittenPaths == {writes[i].path : i \in DOMAIN writes}

\* C1: a checkpoint written by the per-epoch save, given back as the discriminator
\* checkpoint file of the next startup, is loaded without failure and restores the
\* saved discriminator parameters and optimizer state.
C1_RoundTrip ==
    (/\ pc \in {"loop", "KeyError"}
     /\ e = 0
     /\ DisCheckpointPath(args) \in WrittenPaths)
    => /\ pc = "loop"
       /\ dis = ckpts[DisCheckpointPath(args)].dis_state_dict
       /\ opt = ckpts[DisCheckpointPath(args)].optimizer_state_dict

\* C3 as claimed: over any sequence of epochs and process runs on one storage root
\* every save writes to a path no earlier save wrote to.
C3_NeverOverwrites ==
    \A i, j \in DOMAIN writes : i < j => writes[i].path /= writes[j].path

\* C3 as amended: within one process run every save writes to a path that no
\* earlier save of that run wrote to.
C3_NoOverwriteWithinRun ==
    \A i, j \in DOMAIN writes :
        (i < j /\ writes[i].run = writes[j].run) => writes[i].path /= writes[j].path

C3_Witness ==
    /\ Len(writes) >= 3
    /\ writes[1].run = 1
    /\ writes[2].run = 1
    /\ writes[3].run = 2


\* ------------------------------------------------------- claims on one run
EpochFed(ep) == SelectSeq(fed, LAMBDA r : r.epoch = ep)
AfterUpdate == pc = "print"

\* C2 as claimed: after every metric update the running averages equal the mean
\* of all values fed since process start, earlier epochs included.
C2_AvgSinceProcessStart ==
    (AfterUpdate /\ args.epochs >= 2) =>
        /\ losses.sum * Len(fed) = SumLoss(fed) * losses.count
        /\ acc.sum * Len(fed) = SumAcc(fed) * acc.count

\* C2 as amended: the meters are made anew at the start of every epoch; after
\* every metric update the running average equals the mean of the values fed
\* since the start of the current epoch, and the current value is the last one fed.
C2_AvgSinceEpochStart ==
    AfterUpdate =>
        /\ losses.count = Len(EpochFed(e))
        /\ acc.count = Len(EpochFed(e))
        /\ losses.sum * Len(EpochFed(e)) = SumLoss(EpochFed(e)) * losses.count
        /\ acc.sum * Len(EpochFed(e)) = SumAcc(EpochFed(e)) * acc.count
        /\ losses.val = fed[Len(fed)].loss
        /\ acc.val = fed[Len(fed)].acc

C2_Witness ==
    /\ AfterUpdate
    /\ e = 1
    /\ losses.sum * Len(fed) /= SumLoss(fed) * losses.count
    /\ acc.sum * Len(fed) /= SumAcc(fed) * acc.count


\* events grows by one operation at a time, so a statement about the latest
\* operation, holding in every state, holds of every operation of the run
Latest(ev) == events /= <<>> /\ events[Len(events)] = ev
\* the loads are the first operations of a run (C7), if they happen at all
LoadedGen == events /= <<>> /\ events[1] = "load_gen"
LoadedDis == \E i \in DOMAIN events \cap {1, 2} : events[i] = "load_dis"
StatsLen0(p) == IF p \in DOMAIN stats0 THEN Len(stats0[p]) ELSE 0
NewRows ==
    LET path == StatsPath(args) IN
    IF path \in DOMAIN stats
    THEN SubSeq(stats[path], StatsLen0(path) + 1, Len(stats[path]))
    ELSE <<>>

\* C6: a run of 0 epochs writes no checkpoint and no metrics row; a run of one
\* epoch (here: of at least one) with save_model off writes no checkpoint file,
\* and still writes metrics rows exactly when save_stats is on.
C6_ZeroEpochsAndNoSave ==
    /\ (pc = "done" /\ args.epochs = 0) =>
           (ckpts = ckpts0 /\ writes = <<>> /\ stats = stats0)
    /\ (pc /= "args" /\ ~args.save_model) =>
           (ckpts = ckpts0 /\ writes = <<>>)
    /\ (pc = "done" /\ args.epochs >= 1 /\ ~args.save_model) =>
           IF args.save_stats THEN NewRows /= <<>> ELSE stats = stats0

C6_Witness ==
    /\ pc = "done"
    /\ args.epochs = 1
    /\ ~args.save_model
    /\ args.save_stats
    /\ Len(NewRows) = 1
    /\ ckpts = ckpts0

\* C7: each checkpoint is loaded at most once, at startup before anything else
\* runs, and not at all when no file is at the configured path; with save_model
\* on, one save follows the last optimizer step of every epoch and precedes the
\* first batch of the next, so a run that completes E epochs has made E saves.
C7_CheckpointLifecycle ==
    /\ Latest("load_gen") => events = <<"load_gen">>
    /\ Latest("load_dis") => events \in {<<"load_dis">>, <<"load_gen", "load_dis">>}
    /\ (pc \notin {"args", "loadgen"} /\ GenCheckpointPath(args) \notin DOMAIN ckpts0) =>
           (gen = "random" /\ ~LoadedGen)
    /\ (pc \notin {"args", "loadgen", "loaddis"}
          /\ DisCheckpointPath(args) \notin DOMAIN ckpts0) =>
           /\ ~LoadedDis
           /\ dis.init = run
           /\ opt.init = run
    /\ (pc /= "args" /\ args.save_model) =>
           /\ Len(writes) = e
           /\ Latest("save") =>
                  /\ Count(events, "save") = Len(writes)
                  /\ writes[e].path = SavePath(args, e - 1)
                  /\ SavePath(args, e - 1) \in DOMAIN ckpts
                  /\ Count(events, "step") = Len(writes) * nbatches
                  /\ events[Len(events) - 1] \in {"update", "row"}
           /\ Latest("sample") => Len(writes) = Count(events, "step") \div nbatches
           /\ pc = "done" => Len(writes) = args.epochs

C7_Witness ==
    /\ pc = "done"
    /\ args.epochs = 2
    /\ nbatches = 2
    /\ args.save_model
    /\ LoadedGen
    /\ LoadedDis
    /\ Len(writes) = 2

GenAtStartup ==
    IF LoadedGen
    THEN ckpts0[GenCheckpointPath(args)].gen_state_dict ELSE "random"
DisAtStartup ==
    IF LoadedDis
    THEN ckpts0[DisCheckpointPath(args)].dis_state_dict ELSE Fresh(run)
OptAtStartup ==
    IF LoadedDis
    THEN ckpts0[DisCheckpointPath(args)].dis_optimizer_state_dict ELSE Fresh(run)

\* C9: once startup has built or restored the models, the generator's parameters
\* never change and the discriminator's parameters and optimizer state change by
\* optimizer steps only, one per processed batch (steps counts them, fed holds one
\* entry per batch whose metrics were taken), each preceded in its batch by
\* sampling, gradient reset, forward and backward pass in that order; a run that
\* completes E epochs of B batches has applied E*B steps.
C9_OneStepPerBatch ==
    /\ pc \notin {"args", "loadgen"} => gen = GenAtStartup
    /\ pc \notin {"args", "loadgen", "loaddis"} =>
           LET steps == dis.steps - DisAtStartup.steps IN
           /\ dis = [DisAtStartup EXCEPT !.steps = @ + steps]
           /\ opt = [OptAtStartup EXCEPT !.steps = @ + steps]
           /\ steps = Len(fed) + (IF pc = "update" THEN 1 ELSE 0)
           /\ Latest("step") => Count(events, "step") = steps
           /\ Latest("sample") => Count(events, "sample") = steps + 1
           /\ pc = "done" => steps = args.epochs * nbatches
    /\ Latest("step") =>
           /\ Len(events) > 4
           /\ SubSeq(events, Len(events) - 4, Len(events) - 1)
                  = <<"sample", "zero_grad", "forward", "backward">>

C9_Witness ==
    /\ pc = "done"
    /\ args.epochs = 2
    /\ nbatches = 2
    /\ Count(events, "step") = 4
    /\ LoadedDis
    /\ dis.steps = 5

\* the metric updates whose print step has run, and their batch indices
Printed == IF pc = "print" THEN Len(fed) - 1 ELSE Len(fed)
BatchOf(i) == (i - 1) - fed[i].epoch * nbatches
RowIdx == {i \in 1..Printed : BatchOf(i) % args.print_freq = 0}

\* C10: the metrics file is append-only: with print interval K >= 1 and save_stats
\* on, one row is appended for exactly the batches whose index in their epoch is a
\* multiple of K, right after that batch's metric update and carrying its values;
\* with save_stats off nothing is written; rows already in the file stay as they are.
C10_MetricsAppendOnly ==
    /\ (~args.save_stats \/ args.print_freq = 0) => stats = stats0
    /\ (args.save_stats /\ args.print_freq >= 1) =>
           LET path == StatsPath(args)
               rows == NewRows
               idx == RowIdx
           IN /\ \A p \in DOMAIN stats0 :
                   p \in DOMAIN stats /\ SubSeq(stats[p], 1, Len(stats0[p])) = stats0[p]
              /\ \A p \in DOMAIN stats :
                   p /= path => (p \in DOMAIN stats0 /\ stats[p] = stats0[p])
              /\ Len(rows) = Cardinality(idx)
              /\ \A i \in idx :
                   LET row == rows[Cardinality({j \in idx : j <= i})] IN
                   /\ row[1] = fed[i].epoch
                   /\ row[2] = BatchOf(i)
                   /\ row[4] = fed[i].loss
                   /\ row[5] = fed[i].acc
    /\ Latest("row") =>
           /\ Len(events) > 1
           /\ events[Len(events) - 1] = "update"
           /\ Count(events, "row") = Len(NewRows)

C10_Witness ==
    /\ pc = "done"
    /\ args.save_stats
    /\ args.print_freq = 2
    /\ args.epochs = 2
    /\ nbatches = 2
    /\ StatsLen0(StatsPath(args)) = 1
    /\ Len(NewRows) = 2
    /\ NewRows[2][1] = 1
    /\ NewRows[2][2] = 0

=============================================================================
